---- MODULE Spec2Model ----
(***************************************************************************)
(* A model of the realtime messenger.                                      *)
(*                                                                         *)
(* Client half: the optimistic send coordinator of ChatView.tsx (the       *)
(* displayed list localMessages, the pending map optimisticMessages, the   *)
(* send mutation and its onSuccess/onError callbacks, the onNew            *)
(* subscription's onData, retryMessage and removeFailedMessage).           *)
(*                                                                         *)
(* Server half: the message router (send, onNew, onAnyNew over the global  *)
(* EventEmitter) and thread.create of the thread router.                   *)
(***************************************************************************)
EXTENDS Integers, Sequences, FiniteSets, TLC

\* ------------------------------------------------------------------ bounds
\* Number of send mutations the client issues (submits and retries together).
MaxSends == 3
\* Number of pushed messages that do not stem from a send of this client view.
MaxForeign == 1
\* Number of times thread.getById is fetched again after the first load.
MaxFetches == 1
\* Number of send mutations issued where the view is modelled with its
\* connection state and its query.
MaxViewSends == 2
\* Number of listeners of the connection state, and the value up to which the
\* reconnect attempts and the connection attempts are followed.
MaxListeners == 2
AttemptsCap == 12
\* The attempts getReconnectDelay is called with are 0..MaxAttemptIndex, and
\* Math.random() returns a multiple of 1/RandSteps.
MaxAttemptIndex == 12
RandSteps == 8
\* Number of threads created, of messages accepted by message.send, and of
\* subscription requests the server receives.
MaxThreads == 2
MaxServerSends == 2
MaxSessions == 2
\* How often the cleanup function of one subscription is called
MaxCloses == 2
\* Runs of equal characters in a content given to validateMessage
MaxRuns == 3
\* Sends of the runs that look at validation
MaxValidatedSends == 1
\* The oldest date formatRelativeTime is given, in days before the call
MaxAgeDays == 3
\* Threads of the runs that look at the emitter alone
MaxBusThreads == 1

\* ------------------------------------------------------------- client data
\* A string is kept as its runs of equal characters, in order: <<>> is "", and
\* <<Run(" ", 1), Run("a", 5000)>> is a blank followed by 5000 times "a".
Run(ch, n) == [ch |-> ch, n |-> n]
\* The string of one character
Text(ch) == <<Run(ch, 1)>>
EmptyText == <<>>
\* The characters String.prototype.trim removes
Whitespace == {" ", "\n"}
\* null
Null == "null"

\* What the user can have in the compose input: "a", "b", " a " and "".
Inputs == {Text("a"), Text("b"), <<Run(" ", 1), Run("a", 1), Run(" ", 1)>>, EmptyText}

\* String.prototype.trim: the white space at both ends is removed
RECURSIVE TrimStart(_)
TrimStart(s) ==
    IF s # <<>> /\ Head(s).ch \in Whitespace THEN TrimStart(Tail(s)) ELSE s

RECURSIVE TrimEnd(_)
TrimEnd(s) ==
    IF s # <<>> /\ s[Len(s)].ch \in Whitespace
    THEN TrimEnd(SubSeq(s, 1, Len(s) - 1))
    ELSE s

Trim(s) == TrimEnd(TrimStart(s))

\* String.prototype.length
RECURSIVE Length(_)
Length(s) == IF s = <<>> THEN 0 ELSE Head(s).n + Length(Tail(s))
\* trpc.auth.me: the user of this client, and another participant.
CurrentUser == "alice"
OtherUser == "bob"
\* The thread shown by the view (the threadId prop).
ViewThread == 1
\* getErrorMessage(error)
ErrorText == "send failed"
\* error: undefined
Undefined == "undefined"

VARIABLES
    newMessage,          \* useState(""): the compose input
    localMessages,       \* useState<DisplayMessage[]>: the displayed list
    optimisticMessages,  \* useState<Map<string, OptimisticMessage>>, in insertion order
    threadId,            \* the threadId prop of the view
    optimisticCount,     \* number of optimistic ids generated so far
    mutations,           \* send mutations in flight (HTTP)
    mutationCount,       \* number of mutate() calls so far
    pushes,              \* events pushed on the onNew subscription, not yet handled
    serverIds,           \* number of message ids the server has assigned
    foreignCount,        \* number of pushes not stemming from a local send
    settled              \* history: the sends whose onSuccess has run

VARIABLES
    connectionState,     \* useState(connectionManager.getState()) of the view
    fetches,             \* thread.getById queries answered by the server, response on its way
    fetchCount           \* number of thread.getById queries made after the first load

viewVars == <<connectionState, fetches, fetchCount>>

VARIABLES
    state,               \* ConnectionManager.state
    stateListeners,      \* ConnectionManager.listeners
    reconnectAttempts,   \* ConnectionManager.reconnectAttempts
    token,               \* localStorage "token"
    socket,              \* the transport of wsClient: connecting, open, waiting (retry timer), closed
    socketToken,         \* the token in the url the current connection was made with
    notified,            \* per listener: the state of its last call, and the parity of its calls
    retries,             \* history: connections attempted since the last open
    seen                 \* what the listeners last called by setState could read:
                         \* getState() and getReconnectAttempts() during the call

connVars == <<state, stateListeners, reconnectAttempts, token, socket, socketToken,
              notified, retries, seen>>

VARIABLES
    attemptIndex,        \* the attempt getReconnectDelay was last called with
    randomDraw,          \* what Math.random() returned in that call, in 1/RandSteps
    reconnectDelay       \* what the call returned, in 1/DelayUnit ms (0: not called yet)

delayVars == <<attemptIndex, randomDraw, reconnectDelay>>

VARIABLES
    validated,           \* the content validateMessage was last called with
    validation,          \* what that call returned
    now,                 \* new Date().getTime() in the last call of formatRelativeTime
    date,                \* the time the call was given, in ms
    relativeTime         \* what the call returned

utilVars == <<validated, validation, now, date, relativeTime>>

clientVars == <<newMessage, localMessages, optimisticMessages, threadId,
                optimisticCount, mutations, mutationCount, pushes, serverIds,
                foreignCount, settled, viewVars, connVars, delayVars, utilVars>>

VARIABLES
    threadParticipant,   \* table thread_participants: the set of <<userId, threadId>>
    threadCount,         \* table threads: the threads are 1..threadCount
    updatedAt,           \* threads.updatedAt, as the number of updates of each thread
    messages,            \* table messages, in order of creation
    creating,            \* thread.create calls in progress, past the findFirst
    sending,             \* message.send calls in progress, past the membership check
    sendCount,           \* number of message.send calls past the membership check
    listeners,           \* messageEmitter: the registered <<event name, handler>>, in order of on()
    sessions,            \* the subscription requests received (onNew, onAnyNew), by number
    emitted              \* history: the messageEmitter.emit calls, in order

serverVars == <<threadParticipant, threadCount, updatedAt, messages, creating,
                sending, sendCount, listeners, sessions, emitted>>

vars == <<clientVars, serverVars>>

\* --------------------------------------------------------------- helpers
\* function isOptimisticMessage(msg): "status" in msg
isOptimisticMessage(msg) == "status" \in DOMAIN msg

\* The first of a set of indices, 0 when there is none: where a for..of with
\* break, or Array.prototype.find, stops.
FirstIndex(S) ==
    IF S = {} THEN 0 ELSE CHOOSE i \in S : \A j \in S : i <= j

RemoveAt(s, i) == SubSeq(s, 1, i - 1) \o SubSeq(s, i + 1, Len(s))

\* Array.prototype.some on ids
HasId(s, id) == \E i \in 1..Len(s) : s[i].id = id

\* Map.prototype.get: the index of the key, 0 when absent
MapIndex(map, optimisticId) ==
    FirstIndex({i \in 1..Len(map) : map[i].optimisticId = optimisticId})

\* LIMITS.MESSAGE_MAX_LENGTH
MESSAGE_MAX_LENGTH == 5000
EmptyError == "Message cannot be empty"
ExceedError == "Message cannot exceed 5000 characters"

\* validateMessage rejecting a trimmed content of MESSAGE_MAX_LENGTH characters too
validateMessage_AtLimit(content) ==
    LET trimmed == Trim(content)
    IN  IF trimmed = EmptyText THEN EmptyError
        ELSE IF Length(trimmed) >= MESSAGE_MAX_LENGTH THEN ExceedError
        ELSE Null

\* validateMessage(content): the error message, or null
validateMessage(content) ==
    LET trimmed == Trim(content)
    IN  IF trimmed = EmptyText THEN EmptyError
        ELSE IF Length(trimmed) > MESSAGE_MAX_LENGTH THEN ExceedError
        ELSE Null

\* generateOptimisticId: unique per call; optimistic ids are negative, server ids positive
generateOptimisticId == -(optimisticCount + 1)

\* The MessageEvent the server returns and pushes.
MessageEvent(id, content, thread, sender) ==
    [id |-> id, content |-> content, threadId |-> thread, sender |-> sender]

\* ------------------------------------------------ sendMutation.onSuccess
\* setOptimisticMessages updater of onSuccess
onSuccessOptimistic(prev, variables) ==
    LET i == FirstIndex({k \in 1..Len(prev) :
                 prev[k].content = variables.content /\ prev[k].status = "sending"})
    IN  IF i = 0 THEN prev ELSE RemoveAt(prev, i)

\* onSuccessLocal without the check that the id is already present
onSuccessLocal_NoDedup(prev, serverMessage, variables) ==
    Append(SelectSeq(prev,
               LAMBDA m : ~isOptimisticMessage(m) \/ m.content # variables.content),
           serverMessage)

\* setLocalMessages updater of onSuccess
onSuccessLocal(prev, serverMessage, variables) ==
    LET filtered == SelectSeq(prev,
                 LAMBDA m : ~isOptimisticMessage(m) \/ m.content # variables.content)
    IN  IF HasId(filtered, serverMessage.id)
        THEN filtered
        ELSE Append(filtered, serverMessage)

\* -------------------------------------------------- sendMutation.onError
\* setOptimisticMessages updater of onError
onErrorOptimistic(prev, variables) ==
    LET i == FirstIndex({k \in 1..Len(prev) :
                 prev[k].content = variables.content /\ prev[k].status = "sending"})
    IN  IF i = 0 THEN prev
        ELSE [prev EXCEPT ![i] = [prev[i] EXCEPT !.status = "failed", !.error = ErrorText]]

\* onErrorLocal marking every sending placeholder, whatever its content
onErrorLocal_AnyContent(prev, variables) ==
    [i \in 1..Len(prev) |->
        IF isOptimisticMessage(prev[i]) /\ prev[i].status = "sending"
        THEN [prev[i] EXCEPT !.status = "failed", !.error = ErrorText]
        ELSE prev[i]]

\* setLocalMessages updater of onError
onErrorLocal(prev, variables) ==
    [i \in 1..Len(prev) |->
        IF /\ isOptimisticMessage(prev[i])
           /\ prev[i].content = variables.content
           /\ prev[i].status = "sending"
        THEN [prev[i] EXCEPT !.status = "failed", !.error = ErrorText]
        ELSE prev[i]]

\* ---------------------------------------------------------------- onData
\* onDataLocal without the check that the id is already present
onDataLocal_NoDedup(prev, message) ==
    LET i == FirstIndex({k \in 1..Len(prev) :
                 /\ isOptimisticMessage(prev[k])
                 /\ prev[k].sender = message.sender
                 /\ prev[k].content = message.content})
    IN  IF i # 0
        THEN Append(RemoveAt(prev, i), message)
        ELSE Append(prev, message)

\* onDataLocal taking a placeholder of the same content, whoever sent the message
onDataLocal_AnySender(prev, message) ==
    IF HasId(prev, message.id)
    THEN prev
    ELSE LET i == FirstIndex({k \in 1..Len(prev) :
                      /\ isOptimisticMessage(prev[k])
                      /\ prev[k].content = message.content})
         IN  IF i # 0
             THEN Append(RemoveAt(prev, i), message)
             ELSE Append(prev, message)

\* setLocalMessages updater of the onNew subscription's onData
onDataLocal(prev, message) ==
    IF HasId(prev, message.id)
    THEN prev
    ELSE LET i == FirstIndex({k \in 1..Len(prev) :
                      /\ isOptimisticMessage(prev[k])
                      /\ prev[k].sender = message.sender
                      /\ prev[k].content = message.content})
         IN  IF i # 0
             THEN Append(RemoveAt(prev, i), message)
             ELSE Append(prev, message)

\* ------------------------------------------------------------ retry/remove
retryOptimistic(prev, msg, optimisticId) ==
    LET i == MapIndex(prev, optimisticId)
        entry == [msg EXCEPT !.status = "sending", !.error = Undefined]
    IN  IF i = 0 THEN Append(prev, entry) ELSE [prev EXCEPT ![i] = entry]

\* retryLocal leaving the error text in place
retryLocal_KeepError(prev, optimisticId) ==
    [i \in 1..Len(prev) |->
        IF isOptimisticMessage(prev[i]) /\ prev[i].optimisticId = optimisticId
        THEN [prev[i] EXCEPT !.status = "sending"]
        ELSE prev[i]]

retryLocal(prev, optimisticId) ==
    [i \in 1..Len(prev) |->
        IF isOptimisticMessage(prev[i]) /\ prev[i].optimisticId = optimisticId
        THEN [prev[i] EXCEPT !.status = "sending", !.error = Undefined]
        ELSE prev[i]]

removeOptimistic(prev, optimisticId) ==
    LET i == MapIndex(prev, optimisticId)
    IN  IF i = 0 THEN prev ELSE RemoveAt(prev, i)

\* removeLocal dropping every failed placeholder instead of the one named
removeLocal_AllFailed(prev, optimisticId) ==
    SelectSeq(prev, LAMBDA m : ~isOptimisticMessage(m) \/ m.status # "failed")

removeLocal(prev, optimisticId) ==
    SelectSeq(prev, LAMBDA m : ~isOptimisticMessage(m) \/ m.optimisticId # optimisticId)

\* ------------------------------------------------------------- mutations
\* sendMutation.mutate(variables): one more HTTP send in flight.  origin is the
\* placeholder on whose behalf the call is made (history, not read by the code).
Mutation(variables, origin) ==
    [rid |-> mutationCount + 1, content |-> variables.content,
     threadId |-> variables.threadId, origin |-> origin,
     phase |-> "requested", id |-> 0]

\* ------------------------------------------------------------------ Init
InitClient ==
    /\ newMessage = EmptyText
    /\ localMessages = <<>>
    /\ optimisticMessages = <<>>
    /\ threadId = ViewThread
    /\ optimisticCount = 0
    /\ mutations = {}
    /\ mutationCount = 0
    /\ pushes = <<>>
    /\ serverIds = 0
    /\ foreignCount = 0
    /\ settled = {}
    /\ connectionState = "connected"
    /\ fetches = {}
    /\ fetchCount = 0

\* --------------------------------------------------------------- actions
\* handleSend issuing the send without showing a placeholder for it
handleSend_NoPlaceholder(input) ==
    /\ mutationCount < MaxSends
    /\ connectionState # "disconnected"
    /\ validateMessage(input) = Null
    /\ LET content == Trim(input)
           optimisticId == generateOptimisticId
           variables == [threadId |-> threadId, content |-> content]
       IN  /\ newMessage' = EmptyText
           /\ optimisticCount' = optimisticCount + 1
           /\ mutations' = mutations \cup {Mutation(variables, optimisticId)}
           /\ mutationCount' = mutationCount + 1
    /\ UNCHANGED <<localMessages, optimisticMessages, threadId, pushes, serverIds,
                   foreignCount, settled>>
    /\ UNCHANGED viewVars
    /\ UNCHANGED connVars
    /\ UNCHANGED delayVars
    /\ UNCHANGED utilVars
    /\ UNCHANGED serverVars

\* handleSend with `input` in the compose input (newMessage) when the form is
\* submitted (the form is disabled while the view shows disconnected;
\* trpc.auth.me has loaded): it returns when validateMessage reports an error or
\* the trimmed content is empty, leaving the input as typed; otherwise it
\* installs the placeholder, clears the input and issues the send.
handleSend(input) ==
    /\ mutationCount < MaxSends
    /\ connectionState # "disconnected"
    /\ IF validateMessage(input) # Null \/ Trim(input) = EmptyText
       THEN /\ newMessage' = input
            /\ UNCHANGED <<localMessages, optimisticMessages, optimisticCount,
                           mutations, mutationCount>>
       ELSE LET content == Trim(input)
                optimisticId == generateOptimisticId
                optimisticMsg == [id |-> optimisticId, optimisticId |-> optimisticId,
                                  content |-> content, threadId |-> threadId,
                                  sender |-> CurrentUser, status |-> "sending",
                                  error |-> Undefined]
                variables == [threadId |-> threadId, content |-> content]
            IN  /\ optimisticMessages' = Append(optimisticMessages, optimisticMsg)
                /\ localMessages' = Append(localMessages, optimisticMsg)
                /\ newMessage' = EmptyText
                /\ optimisticCount' = optimisticCount + 1
                /\ mutations' = mutations \cup {Mutation(variables, optimisticId)}
                /\ mutationCount' = mutationCount + 1
    /\ UNCHANGED <<threadId, pushes, serverIds, foreignCount, settled>>
    /\ UNCHANGED viewVars
    /\ UNCHANGED connVars
    /\ UNCHANGED delayVars
    /\ UNCHANGED utilVars
    /\ UNCHANGED serverVars

\* enabled: connectionState === "connected" || connectionState === "reconnecting"
SubscriptionEnabled == connectionState \in {"connected", "reconnecting"}

\* messageRouter.send as seen from this client: the message is created (stored
\* in the messages table), the event is emitted (and pushed to this client when
\* its onNew subscription is live), and the HTTP response carrying the same
\* event is on its way.
ServerSend(r, subscribed) ==
    /\ r \in mutations
    /\ r.phase = "requested"
    /\ subscribed => SubscriptionEnabled
    /\ LET event == MessageEvent(serverIds + 1, r.content, r.threadId, CurrentUser)
       IN  /\ serverIds' = serverIds + 1
           /\ mutations' = (mutations \ {r}) \cup {[r EXCEPT !.phase = "responded", !.id = event.id]}
           /\ pushes' = IF subscribed THEN Append(pushes, event) ELSE pushes
           /\ messages' = Append(messages, event)
    /\ UNCHANGED <<newMessage, localMessages, optimisticMessages, threadId,
                   optimisticCount, mutationCount, foreignCount, settled>>
    /\ UNCHANGED viewVars
    /\ UNCHANGED connVars
    /\ UNCHANGED delayVars
    /\ UNCHANGED utilVars
    /\ UNCHANGED <<threadParticipant, threadCount, updatedAt, creating, sending,
                   sendCount, listeners, sessions, emitted>>

\* A message of the viewed thread sent from elsewhere (the other participant, or
\* the same user on another client) is pushed on the subscription.
ForeignSend(sender, content) ==
    /\ foreignCount < MaxForeign
    /\ foreignCount' = foreignCount + 1
    /\ serverIds' = serverIds + 1
    /\ pushes' = Append(pushes, MessageEvent(serverIds + 1, content, threadId, sender))
    /\ messages' = Append(messages, MessageEvent(serverIds + 1, content, threadId, sender))
    /\ UNCHANGED <<newMessage, localMessages, optimisticMessages, threadId,
                   optimisticCount, mutations, mutationCount, settled>>
    /\ UNCHANGED viewVars
    /\ UNCHANGED connVars
    /\ UNCHANGED delayVars
    /\ UNCHANGED utilVars
    /\ UNCHANGED <<threadParticipant, threadCount, updatedAt, creating, sending,
                   sendCount, listeners, sessions, emitted>>

\* sendMutation.onSuccess(serverMessage, variables)
SendSuccess(r) ==
    /\ r \in mutations
    /\ r.phase = "responded"
    /\ LET variables == [threadId |-> r.threadId, content |-> r.content]
           serverMessage == MessageEvent(r.id, r.content, r.threadId, CurrentUser)
       IN  /\ optimisticMessages' = onSuccessOptimistic(optimisticMessages, variables)
           /\ localMessages' = onSuccessLocal(localMessages, serverMessage, variables)
           /\ newMessage' = EmptyText
           /\ mutations' = mutations \ {r}
           /\ settled' = settled \cup {[id |-> r.id, origin |-> r.origin]}
    /\ UNCHANGED <<threadId, optimisticCount, mutationCount, pushes, serverIds,
                   foreignCount>>
    /\ UNCHANGED viewVars
    /\ UNCHANGED connVars
    /\ UNCHANGED delayVars
    /\ UNCHANGED utilVars
    /\ UNCHANGED serverVars

\* sendMutation.onError(error, variables): the request was rejected or lost, or
\* its response was lost after the server had processed it.
SendError(r) ==
    /\ r \in mutations
    /\ LET variables == [threadId |-> r.threadId, content |-> r.content]
       IN  /\ optimisticMessages' = onErrorOptimistic(optimisticMessages, variables)
           /\ localMessages' = onErrorLocal(localMessages, variables)
           /\ mutations' = mutations \ {r}
    /\ UNCHANGED <<newMessage, threadId, optimisticCount, mutationCount, pushes,
                   serverIds, foreignCount, settled>>
    /\ UNCHANGED viewVars
    /\ UNCHANGED connVars
    /\ UNCHANGED delayVars
    /\ UNCHANGED utilVars
    /\ UNCHANGED serverVars

\* onData(message) of trpc.message.onNew.useSubscription
onData ==
    /\ pushes # <<>>
    /\ LET message == Head(pushes)
       IN  /\ localMessages' = onDataLocal(localMessages, message)
           /\ pushes' = Tail(pushes)
    /\ UNCHANGED <<newMessage, optimisticMessages, threadId, optimisticCount,
                   mutations, mutationCount, serverIds, foreignCount, settled>>
    /\ UNCHANGED viewVars
    /\ UNCHANGED connVars
    /\ UNCHANGED delayVars
    /\ UNCHANGED utilVars
    /\ UNCHANGED serverVars

\* The Retry button is rendered for the placeholders the list shows as failed.
RetryShown(optimisticId) ==
    \E i \in 1..Len(localMessages) :
        /\ isOptimisticMessage(localMessages[i])
        /\ localMessages[i].status = "failed"
        /\ localMessages[i].optimisticId = optimisticId

\* retryMessage(optimisticId)
retryMessage(optimisticId) ==
    /\ mutationCount < MaxSends
    /\ RetryShown(optimisticId)
    /\ UNCHANGED viewVars
    /\ UNCHANGED connVars
    /\ UNCHANGED delayVars
    /\ UNCHANGED utilVars
    /\ UNCHANGED serverVars
    /\ LET i == MapIndex(optimisticMessages, optimisticId)
       IN  IF i = 0
           THEN UNCHANGED clientVars
           ELSE LET msg == optimisticMessages[i]
                    variables == [threadId |-> threadId, content |-> msg.content]
                IN  /\ optimisticMessages' = retryOptimistic(optimisticMessages, msg, optimisticId)
                    /\ localMessages' = retryLocal(localMessages, optimisticId)
                    /\ mutations' = mutations \cup {Mutation(variables, optimisticId)}
                    /\ mutationCount' = mutationCount + 1
                    /\ UNCHANGED <<newMessage, threadId, optimisticCount, pushes,
                                   serverIds, foreignCount, settled>>

\* removeFailedMessage(optimisticId), the Delete button
removeFailedMessage(optimisticId) ==
    /\ RetryShown(optimisticId)
    /\ optimisticMessages' = removeOptimistic(optimisticMessages, optimisticId)
    /\ localMessages' = removeLocal(localMessages, optimisticId)
    /\ UNCHANGED <<newMessage, threadId, optimisticCount, mutations, mutationCount,
                   pushes, serverIds, foreignCount, settled>>
    /\ UNCHANGED viewVars
    /\ UNCHANGED connVars
    /\ UNCHANGED delayVars
    /\ UNCHANGED utilVars
    /\ UNCHANGED serverVars

\* --------------------------------------------------- the rest of the view
\* The states connectionManager.setState is called with (part_006: onOpen, onClose)
NotifiedStates == {"connected", "reconnecting", "disconnected"}

\* setConnectionState, the listener the view registers with the
\* connectionManager.  When this disables the subscription, it is stopped and
\* what was pushed on it and not yet handled is never handed to onData.
setConnectionState(newState) ==
    /\ newState # connectionState
    /\ connectionState' = newState
    /\ pushes' = IF newState \in {"connected", "reconnecting"} THEN pushes ELSE <<>>
    /\ UNCHANGED <<newMessage, localMessages, optimisticMessages, threadId,
                   optimisticCount, mutations, mutationCount, serverIds,
                   foreignCount, settled, fetches, fetchCount>>
    /\ UNCHANGED connVars
    /\ UNCHANGED delayVars
    /\ UNCHANGED utilVars
    /\ UNCHANGED serverVars

\* What thread.getById returns as messages: those of the thread, oldest first,
\* each as {id, content, createdAt, sender}
getByIdMessages(thread) ==
    LET of == SelectSeq(messages, LAMBDA m : m.threadId = thread)
    IN  [i \in 1..Len(of) |->
            [id |-> of[i].id, content |-> of[i].content, sender |-> of[i].sender]]

\* thread.getById is fetched again (window focus, reconnect, remount with stale
\* data): the server answers with the messages it has at that moment.
FetchRequest ==
    /\ fetchCount < MaxFetches
    /\ fetchCount' = fetchCount + 1
    /\ fetches' = fetches \cup {[fid |-> fetchCount + 1, threadId |-> threadId,
                                  messages |-> getByIdMessages(threadId)]}
    /\ UNCHANGED <<newMessage, localMessages, optimisticMessages, threadId,
                   optimisticCount, mutations, mutationCount, pushes, serverIds,
                   foreignCount, settled, connectionState>>
    /\ UNCHANGED connVars
    /\ UNCHANGED delayVars
    /\ UNCHANGED utilVars
    /\ UNCHANGED serverVars

\* onSuccess(data) of trpc.thread.getById.useQuery
FetchSuccess(f) ==
    /\ f \in fetches
    /\ fetches' = fetches \ {f}
    /\ localMessages' = f.messages
    /\ UNCHANGED <<newMessage, optimisticMessages, threadId, optimisticCount,
                   mutations, mutationCount, pushes, serverIds, foreignCount,
                   settled, connectionState, fetchCount>>
    /\ UNCHANGED connVars
    /\ UNCHANGED delayVars
    /\ UNCHANGED utilVars
    /\ UNCHANGED serverVars

\* The threads the user can select in the thread list
ViewThreads == 1..MaxThreads

\* The user selects another thread: ChatView, which Messenger does not key by
\* thread, is rendered with the new threadId prop.  The reset effect empties the
\* list and the pending map; the onNew subscription of the thread left is
\* stopped, so what it still had on its way is dropped, and one for the new
\* thread is started; thread.getById is fetched for the new thread and the
\* answer to an earlier query is no longer listened to.  The compose input and
\* the send mutations in flight are left as they are.
selectThread(t) ==
    /\ t # threadId
    /\ threadId' = t
    /\ localMessages' = <<>>
    /\ optimisticMessages' = <<>>
    /\ pushes' = <<>>
    /\ fetches' = {[fid |-> 0, threadId |-> t, messages |-> getByIdMessages(t)]}
    /\ UNCHANGED <<newMessage, optimisticCount, mutations, mutationCount, serverIds,
                   foreignCount, settled, connectionState, fetchCount>>
    /\ UNCHANGED connVars
    /\ UNCHANGED delayVars
    /\ UNCHANGED utilVars
    /\ UNCHANGED serverVars

\* onChange of the compose input: setNewMessage(e.target.value); the input is
\* disabled while the connection state is disconnected
onChange(value) ==
    /\ connectionState # "disconnected"
    /\ newMessage' = value
    /\ UNCHANGED <<localMessages, optimisticMessages, threadId, optimisticCount,
                   mutations, mutationCount, pushes, serverIds, foreignCount, settled>>
    /\ UNCHANGED viewVars
    /\ UNCHANGED connVars
    /\ UNCHANGED delayVars
    /\ UNCHANGED utilVars
    /\ UNCHANGED serverVars

\* ===================================================== connection manager
\* The send coordinator's variables, which the connection manager leaves alone
sendVars == <<newMessage, localMessages, optimisticMessages, threadId,
              optimisticCount, mutations, mutationCount, pushes, serverIds,
              foreignCount, settled>>

\* private maxReconnectAttempts = 10
maxReconnectAttempts == 10
\* localStorage.getItem("token") returns null or the token of one of two logins
Tokens == {"t1", "t2"}
\* The functions passed to connectionManager.subscribe
Listeners == 1..MaxListeners

\* shouldReconnect(), with the value of reconnectAttempts it reads
shouldReconnect(attempts) == attempts < maxReconnectAttempts

\* listeners.forEach((listener) => listener(state)) calling no one
forEachListener_NoCall(s) == notified

\* listeners.forEach((listener) => listener(state)): what each listener has
\* been called with last, and whether it has been called an odd number of times
forEachListener(s) ==
    [l \in Listeners |->
        IF l \in stateListeners
        THEN [last |-> s, calls |-> (notified[l].calls + 1) % 2]
        ELSE notified[l]]

\* connectionManager.setState(s)
setState(s) ==
    /\ state' = s
    /\ notified' = forEachListener(s)

\* What getState() and getReconnectAttempts() return during the forEach of
\* setState(s), attempts being the value of reconnectAttempts while it runs
Seen(s, attempts) == [state |-> s, attempts |-> attempts]

\* onClose reconnecting whether or not a token is stored
onCloseState_NoTokenCheck(tok, attempts) ==
    IF shouldReconnect(attempts + 1) THEN "reconnecting" ELSE "disconnected"

\* The state onClose sets, with the stored token and the attempts before it
onCloseState(tok, attempts) ==
    IF tok = Null
    THEN "disconnected"
    ELSE IF shouldReconnect(attempts + 1) THEN "reconnecting" ELSE "disconnected"

\* wsClient onClose(cause), reading tok from localStorage
onClose(tok) ==
    /\ setState(onCloseState(tok, reconnectAttempts))
    /\ reconnectAttempts' = IF tok = Null THEN reconnectAttempts
                                          ELSE reconnectAttempts + 1
    /\ seen' = Seen(onCloseState(tok, reconnectAttempts), reconnectAttempts')

InitConnection ==
    /\ state = "disconnected"
    /\ stateListeners = {}
    /\ reconnectAttempts = 0
    /\ token = "t1"
    /\ socket = "connecting"
    /\ socketToken = "t1"
    /\ notified = [l \in Listeners |-> [last |-> "none", calls |-> 0]]
    /\ retries = 0
    /\ seen = [state |-> "disconnected", attempts |-> 0]

\* wsClient onOpen: setState("connected") runs, and calls the listeners, before
\* resetReconnectAttempts()
onOpen ==
    /\ setState("connected")
    /\ seen' = Seen("connected", reconnectAttempts)
    /\ reconnectAttempts' = 0

\* The transport opens: wsClient onOpen
TransportOpen ==
    /\ socket = "connecting"
    /\ socket' = "open"
    /\ onOpen
    /\ retries' = 0
    /\ UNCHANGED <<stateListeners, token, socketToken>>
    /\ UNCHANGED <<sendVars, viewVars, delayVars, utilVars, serverVars>>

\* The transport closes, or a connection attempt fails: wsClient onClose; the
\* client then waits retryDelayMs before it connects again
TransportClose ==
    /\ socket \in {"open", "connecting"}
    /\ reconnectAttempts < AttemptsCap
    /\ socket' = "waiting"
    /\ onClose(token)
    /\ UNCHANGED <<stateListeners, token, socketToken, retries>>
    /\ UNCHANGED <<sendVars, viewVars, delayVars, utilVars, serverVars>>

\* getWSUrl(): the token the url carries
getWSUrl == token

\* The retry delay has elapsed: the client connects, to the url getWSUrl returns
RetryTimer ==
    /\ socket = "waiting"
    /\ retries < AttemptsCap
    /\ socket' = "connecting"
    /\ socketToken' = getWSUrl
    /\ retries' = retries + 1
    /\ UNCHANGED <<state, stateListeners, reconnectAttempts, token, notified, seen>>
    /\ UNCHANGED <<sendVars, viewVars, delayVars, utilVars, serverVars>>

\* connectionManager.reconnect(): wsClient.close().  The connection is closed
\* and onClose runs, with tok stored; whether the client connects again
\* afterwards is up to the library (again: it will, or it stays closed).
reconnect(tok, again) ==
    /\ socket' = IF again THEN "waiting" ELSE "closed"
    /\ onClose(tok)

\* auth.clearToken() (logout)
clearToken(again) ==
    /\ reconnectAttempts < AttemptsCap
    /\ token' = Null
    /\ reconnect(Null, again)
    /\ UNCHANGED <<stateListeners, socketToken, retries>>
    /\ UNCHANGED <<sendVars, viewVars, delayVars, utilVars, serverVars>>

\* auth.setToken(t) (login)
setToken(t, again) ==
    /\ reconnectAttempts < AttemptsCap
    /\ token' = t
    /\ reconnect(t, again)
    /\ UNCHANGED <<stateListeners, socketToken, retries>>
    /\ UNCHANGED <<sendVars, viewVars, delayVars, utilVars, serverVars>>

\* connectionManager.subscribe(listener)
subscribe(l) ==
    /\ stateListeners' = stateListeners \cup {l}
    /\ notified' = [notified EXCEPT ![l] = [last |-> state, calls |-> (@.calls + 1) % 2]]
    /\ UNCHANGED <<state, reconnectAttempts, token, socket, socketToken, retries,
                   seen>>
    /\ UNCHANGED <<sendVars, viewVars, delayVars, utilVars, serverVars>>

\* The function subscribe returned: listeners.delete(listener)
unsubscribe(l) ==
    /\ l \in stateListeners
    /\ stateListeners' = stateListeners \ {l}
    /\ UNCHANGED <<state, reconnectAttempts, token, socket, socketToken, notified,
                   retries, seen>>
    /\ UNCHANGED <<sendVars, viewVars, delayVars, utilVars, serverVars>>

\* ------------------------------------------------------ getReconnectDelay
\* const baseDelay = 1000; const maxDelay = 30000
baseDelay == 1000
maxDelay == 30000
\* Delays are kept as integers: multiples of 1/DelayUnit ms
DelayUnit == 10 * RandSteps

\* Math.min
Min(a, b) == IF a <= b THEN a ELSE b

\* const delay = Math.min(baseDelay * Math.pow(2, attempt), maxDelay), in ms
cappedDelay(attempt) == Min(baseDelay * 2^attempt, maxDelay)

\* getReconnectDelay with a jitter of delay * (Math.random() - 0.5)
getReconnectDelay_WideJitter(attempt, r) ==
    LET delay == cappedDelay(attempt)
        jitter == delay * 5 * (2 * r - RandSteps)
    IN  delay * DelayUnit + jitter

\* getReconnectDelay(attempt) when Math.random() returns r / RandSteps: delay +
\* jitter with jitter = delay * 0.2 * (Math.random() - 0.5), in 1/DelayUnit ms
getReconnectDelay(attempt, r) ==
    LET delay == cappedDelay(attempt)
        jitter == delay * (2 * r - RandSteps)
    IN  delay * DelayUnit + jitter

InitDelay ==
    /\ attemptIndex = 0
    /\ randomDraw = 0
    /\ reconnectDelay = 0

\* retryDelayMs(attemptIndex): one call of getReconnectDelay
retryDelayMs(attempt, r) ==
    /\ attemptIndex' = attempt
    /\ randomDraw' = r
    /\ reconnectDelay' = getReconnectDelay(attempt, r)
    /\ UNCHANGED <<sendVars, viewVars, connVars, utilVars, serverVars>>

\* ------------------------------------------------------ validateMessage
NotCalled == "not called"

\* A string made of a number in decimal and a fixed text, as `${mins}m ago`
Rendered(n, text) == [n |-> n, text |-> text]

InitUtil ==
    /\ validated = EmptyText
    /\ validation = NotCalled
    /\ now = 0
    /\ date = 0
    /\ relativeTime = Rendered(0, NotCalled)

\* The contents validateMessage is called with: up to MaxRuns runs of blanks, line
\* breaks or letters, of the lengths around MESSAGE_MAX_LENGTH
RunLengths == {1, MESSAGE_MAX_LENGTH, MESSAGE_MAX_LENGTH + 1}
Runs == {Run(ch, n) : ch \in {" ", "\n", "a"}, n \in RunLengths}
Texts == UNION {[1..k -> Runs] : k \in 0..MaxRuns}

\* The user has typed `content` into the compose input (onChange: setNewMessage)
\* and validateMessage is called with it, as handleSend does first.
validate(content) ==
    /\ newMessage' = content
    /\ validated' = content
    /\ validation' = validateMessage(content)
    /\ UNCHANGED <<now, date, relativeTime>>
    /\ UNCHANGED <<localMessages, optimisticMessages, threadId, optimisticCount,
                   mutations, mutationCount, pushes, serverIds, foreignCount, settled>>
    /\ UNCHANGED <<viewVars, connVars, delayVars, serverVars>>

\* ---------------------------------------------------- formatRelativeTime
MinuteMs == 60000
HourMs == 3600000
DayMs == 86400000

\* Date.prototype.toLocaleDateString: the calendar day the time lies in
toLocaleDateString(d) == Rendered(d \div DayMs, "date")

\* formatRelativeTime with Math.round in place of Math.floor
formatRelativeTime_Rounded(d, nowMs) ==
    LET diff == nowMs - d
    IN  IF diff < MinuteMs THEN Rendered(0, "Just now")
        ELSE IF diff < HourMs THEN Rendered((2 * diff + MinuteMs) \div (2 * MinuteMs), "m ago")
        ELSE IF diff < DayMs THEN Rendered((2 * diff + HourMs) \div (2 * HourMs), "h ago")
        ELSE toLocaleDateString(d)

\* formatRelativeTime(date) called when new Date().getTime() is nowMs; d is
\* new Date(date).getTime()
formatRelativeTime(d, nowMs) ==
    LET diff == nowMs - d
    IN  IF diff < MinuteMs THEN Rendered(0, "Just now")
        ELSE IF diff < HourMs THEN Rendered(diff \div MinuteMs, "m ago")
        ELSE IF diff < DayMs THEN Rendered(diff \div HourMs, "h ago")
        ELSE toLocaleDateString(d)

\* The times formatRelativeTime is called at, and how long before them the date
\* it is given lies (negative: the date is ahead of the clock)
Nows == {MaxAgeDays * DayMs + k : k \in {0, 1, MinuteMs - 1, HourMs + 1, DayMs - 1}}
Diffs == {d * DayMs + k * m + e :
             d \in {0, 1, MaxAgeDays}, k \in {0, 1, 2, 30, 59}, m \in {MinuteMs, HourMs},
             e \in {-1, 0, 1}}

\* One call formatRelativeTime(date)
format(d, nowMs) ==
    /\ now' = nowMs
    /\ date' = d
    /\ relativeTime' = formatRelativeTime(d, nowMs)
    /\ UNCHANGED <<validated, validation>>
    /\ UNCHANGED <<sendVars, viewVars, connVars, delayVars, serverVars>>

NextFormat ==
    \E nowMs \in Nows, diff \in Diffs : format(nowMs - diff, nowMs)

NextDelay ==
    \E attempt \in 0..MaxAttemptIndex, r \in 0..(RandSteps - 1) : retryDelayMs(attempt, r)

NextConnection ==
    \/ TransportOpen
    \/ TransportClose
    \/ RetryTimer
    \/ \E t \in Tokens, again \in BOOLEAN : setToken(t, again)
    \/ \E again \in BOOLEAN : clearToken(again)
    \/ \E l \in Listeners : subscribe(l)
    \/ \E l \in Listeners : unsubscribe(l)

\* =========================================================== server half
\* The seeded users; ctx.user is one of them (protectedProcedure).
Users == {"alice", "bob", "charlie"}
\* The thread.create requests made: <<ctx.user, input.username>>
CreateRequests == {<<"alice", "bob">>, <<"bob", "alice">>, <<"alice", "charlie">>,
                   <<"bob", "bob">>}
\* The users who send, and the users who subscribe
Senders == {"alice", "charlie"}
Subscribers == {"alice", "bob"}
\* Thread ids a request can name
ThreadIds == 1..MaxThreads
\* The content of the messages sent to the server.
ServerContent == <<Run("h", 1), Run("i", 1)>>

\* `thread:${threadId}` and "message:new"
ThreadTopic(thread) == <<"thread", thread>>
AnyTopic == <<"message:new", 0>>

\* The topic the handler of a session is registered on
TopicOf(session) ==
    IF session.procedure = "onNew" THEN ThreadTopic(session.threadId) ELSE AnyTopic

\* prisma.threadParticipant.findUnique({userId_threadId}) returns a row
IsParticipant(userId, thread) == <<userId, thread>> \in threadParticipant

\* verifyThreadParticipant that lets everyone through (the check left out)
verifyThreadParticipant_Missing(userId, thread) == TRUE

\* verifyThreadParticipant(ctx, threadId): TRUE when it returns, FALSE when it
\* throws FORBIDDEN
verifyThreadParticipant(userId, thread) == IsParticipant(userId, thread)

\* getUserThreadIds(ctx)
getUserThreadIds(userId) == {t \in 1..threadCount : <<userId, t>> \in threadParticipant}

ParticipantsOf(thread) == {u \in Users : <<u, thread>> \in threadParticipant}

\* prisma.thread.findFirst of thread.create: the threads with both users and no other
ExistingThreads(userId, target) ==
    {t \in 1..threadCount :
        /\ <<userId, t>> \in threadParticipant
        /\ <<target, t>> \in threadParticipant
        /\ ParticipantsOf(t) \subseteq {userId, target}}

InitServer ==
    /\ threadParticipant = {}
    /\ threadCount = 0
    /\ updatedAt = [t \in ThreadIds |-> 0]
    /\ messages = <<>>
    /\ creating = {}
    /\ sending = {}
    /\ sendCount = 0
    /\ listeners = <<>>
    /\ sessions = <<>>
    /\ emitted = <<>>

\* ----------------------------------------------------------- thread.create
\* thread.create({username}) up to the findFirst: rejected for oneself, otherwise
\* the lookup of an existing thread is answered; without one the insert follows.
CreateFind(userId, target) ==
    /\ threadCount + Cardinality(creating) < MaxThreads
    /\ creating' = IF target = userId \/ ExistingThreads(userId, target) # {}
                   THEN creating
                   ELSE creating \cup {[userId |-> userId, target |-> target]}
    /\ UNCHANGED <<threadParticipant, threadCount, updatedAt, messages, sending,
                   sendCount, listeners, sessions, emitted>>
    /\ UNCHANGED clientVars

\* prisma.thread.create with both participants
CreateInsert(c) ==
    /\ c \in creating
    /\ creating' = creating \ {c}
    /\ threadCount' = threadCount + 1
    /\ threadParticipant' = threadParticipant \cup
            {<<c.userId, threadCount + 1>>, <<c.target, threadCount + 1>>}
    /\ UNCHANGED <<updatedAt, messages, sending, sendCount, listeners,
                   sessions, emitted>>
    /\ UNCHANGED clientVars

\* ------------------------------------------------------------ message.send
\* message.send that goes on to the insert whatever the membership check says
SendVerify_Continue(userId, thread) ==
    /\ sendCount < MaxServerSends
    /\ sendCount' = sendCount + 1
    /\ sending' = sending \cup
            {[sid |-> sendCount + 1, userId |-> userId, threadId |-> thread, id |-> 0,
              pc |-> "create"]}
    /\ UNCHANGED <<threadParticipant, threadCount, updatedAt, messages, creating,
                   listeners, sessions, emitted>>
    /\ UNCHANGED clientVars

\* message.send({threadId, content}) up to the membership check: the call goes on
\* to the insert, or is answered FORBIDDEN and is over.
SendVerify(userId, thread) ==
    /\ sendCount < MaxServerSends
    /\ sendCount' = sendCount + 1
    /\ sending' = sending \cup
            {[sid |-> sendCount + 1, userId |-> userId, threadId |-> thread, id |-> 0,
              pc |-> IF verifyThreadParticipant(userId, thread)
                     THEN "create" ELSE "forbidden"]}
    /\ UNCHANGED <<threadParticipant, threadCount, updatedAt, messages, creating,
                   listeners, sessions, emitted>>
    /\ UNCHANGED clientVars

\* prisma.message.create
SendCreate(s) ==
    /\ s \in sending
    /\ s.pc = "create"
    /\ LET id == Len(messages) + 1
       IN  /\ messages' = Append(messages, MessageEvent(id, ServerContent, s.threadId, s.userId))
           /\ sending' = (sending \ {s}) \cup {[s EXCEPT !.pc = "update", !.id = id]}
    /\ UNCHANGED <<threadParticipant, threadCount, updatedAt, creating,
                   sendCount, listeners, sessions, emitted>>
    /\ UNCHANGED clientVars

\* prisma.thread.update({updatedAt})
SendUpdate(s) ==
    /\ s \in sending
    /\ s.pc = "update"
    /\ updatedAt' = [updatedAt EXCEPT ![s.threadId] = @ + 1]
    /\ sending' = (sending \ {s}) \cup {[s EXCEPT !.pc = "emit"]}
    /\ UNCHANGED <<threadParticipant, threadCount, messages, creating,
                   sendCount, listeners, sessions, emitted>>
    /\ UNCHANGED clientVars

\* prisma.message.create rejects (the database fails): the exception leaves the
\* mutation, nothing is stored and the call is over.
SendCreateFails(s) ==
    /\ s \in sending
    /\ s.pc = "create"
    /\ sending' = (sending \ {s}) \cup {[s EXCEPT !.pc = "failed"]}
    /\ UNCHANGED <<threadParticipant, threadCount, updatedAt, messages, creating,
                   sendCount, listeners, sessions, emitted>>
    /\ UNCHANGED clientVars

\* prisma.thread.update rejecting and the call going on to emit all the same
SendUpdateFails_Emits(s) ==
    /\ s \in sending
    /\ s.pc = "update"
    /\ sending' = (sending \ {s}) \cup {[s EXCEPT !.pc = "emit"]}
    /\ UNCHANGED <<threadParticipant, threadCount, updatedAt, messages, creating,
                   sendCount, listeners, sessions, emitted>>
    /\ UNCHANGED clientVars

\* prisma.thread.update rejects: the exception leaves the mutation; the message
\* stays stored, updatedAt is not touched and the call is over.
SendUpdateFails(s) ==
    /\ s \in sending
    /\ s.pc = "update"
    /\ sending' = (sending \ {s}) \cup {[s EXCEPT !.pc = "failed"]}
    /\ UNCHANGED <<threadParticipant, threadCount, updatedAt, messages, creating,
                   sendCount, listeners, sessions, emitted>>
    /\ UNCHANGED clientVars

\* onMessage forwarding whatever it is called with
onMessage_Unfiltered(session, message) == TRUE

\* onMessage of onAnyNew looking membership up at delivery instead of using the
\* set computed at subscribe time
onMessage_LiveMembership(session, message) ==
    IF session.procedure = "onNew"
    THEN message.threadId = session.threadId
    ELSE IsParticipant(session.userId, message.threadId)

\* The onMessage closure of a subscription: whether it calls emit.next(message)
onMessage(session, message) ==
    IF session.procedure = "onNew"
    THEN message.threadId = session.threadId
    ELSE message.threadId \in session.userThreadIds

\* Emit keeping the message for the onNew requests of the thread that are still
\* waiting for their membership check
Emit_ToPending(ss, topic, message) ==
    [n \in 1..Len(ss) |->
        IF /\ \/ \E k \in 1..Len(listeners) : listeners[k] = <<topic, n>>
              \/ /\ ss[n].state = "pending"
                 /\ ss[n].procedure = "onNew"
                 /\ topic = <<"thread", ss[n].threadId>>
           /\ onMessage(ss[n], message)
        THEN [ss[n] EXCEPT !.received = Append(@, message)]
        ELSE ss[n]]

\* Emit handing the message to a session in front of what it was sent before
Emit_Reordered(ss, topic, message) ==
    [n \in 1..Len(ss) |->
        IF /\ \E k \in 1..Len(listeners) : listeners[k] = <<topic, n>>
           /\ onMessage(ss[n], message)
        THEN [ss[n] EXCEPT !.received = <<message>> \o @]
        ELSE ss[n]]

\* EventEmitter.emit(topic, message): every handler registered for the topic is
\* called, in order of registration; a handler that forwards appends the message
\* to what its session has been sent.
Emit(ss, topic, message) ==
    [n \in 1..Len(ss) |->
        IF /\ \E k \in 1..Len(listeners) : listeners[k] = <<topic, n>>
           /\ onMessage(ss[n], message)
        THEN [ss[n] EXCEPT !.received = Append(@, message)]
        ELSE ss[n]]

\* The tail of message.send: emit on the thread's topic, then on "message:new"
SendEmit(s) ==
    /\ s \in sending
    /\ s.pc = "emit"
    /\ LET messageEvent == messages[s.id]
       IN  /\ sessions' = Emit(Emit(sessions, ThreadTopic(s.threadId), messageEvent),
                               AnyTopic, messageEvent)
           /\ emitted' = emitted \o <<[topic |-> ThreadTopic(s.threadId), event |-> messageEvent],
                                      [topic |-> AnyTopic, event |-> messageEvent]>>
    /\ sending' = sending \ {s}
    /\ UNCHANGED <<threadParticipant, threadCount, updatedAt, messages, creating,
                   sendCount, listeners>>
    /\ UNCHANGED clientVars

\* The place of the handler of session n among the handlers of the emitter
Position(topic, n) == CHOOSE k \in 1..Len(listeners) : listeners[k] = <<topic, n>>

\* EventEmitter.emit(topic, message) when the handler of session n throws from
\* emit.next: the handlers registered before it have been called, the exception
\* leaves emit, and the handlers registered after it are not called.
EmitUntil(ss, topic, message, n) ==
    [m \in 1..Len(ss) |->
        IF /\ \E k \in 1..Len(listeners) :
                  listeners[k] = <<topic, m>> /\ k < Position(topic, n)
           /\ onMessage(ss[m], message)
        THEN [ss[m] EXCEPT !.received = Append(@, message)]
        ELSE ss[m]]

\* The tail of message.send when the handler of session n throws: nothing catches
\* the exception, so it leaves emit and the mutation; an exception in the first
\* emit skips the second one, and the send is answered with the error.
SendEmitThrows(s, n) ==
    /\ s \in sending
    /\ s.pc = "emit"
    /\ n \in 1..Len(sessions)
    /\ LET messageEvent == messages[s.id]
           topic == TopicOf(sessions[n])
       IN  /\ topic \in {ThreadTopic(s.threadId), AnyTopic}
           /\ \E k \in 1..Len(listeners) : listeners[k] = <<topic, n>>
           /\ onMessage(sessions[n], messageEvent)
           /\ IF topic = AnyTopic
              THEN /\ sessions' = EmitUntil(Emit(sessions, ThreadTopic(s.threadId), messageEvent),
                                            AnyTopic, messageEvent, n)
                   /\ emitted' = emitted \o
                          <<[topic |-> ThreadTopic(s.threadId), event |-> messageEvent],
                            [topic |-> AnyTopic, event |-> messageEvent]>>
              ELSE /\ sessions' = EmitUntil(sessions, topic, messageEvent, n)
                   /\ emitted' = Append(emitted, [topic |-> topic, event |-> messageEvent])
    /\ sending' = (sending \ {s}) \cup {[s EXCEPT !.pc = "threw"]}
    /\ UNCHANGED <<threadParticipant, threadCount, updatedAt, messages, creating,
                   sendCount, listeners>>
    /\ UNCHANGED clientVars

\* ----------------------------------------------------------- subscriptions
Session(userId, procedure, thread) ==
    [userId |-> userId, procedure |-> procedure, threadId |-> thread,
     state |-> "pending", userThreadIds |-> {}, since |-> 0, received |-> <<>>,
     closes |-> 0]

\* A subscription request arrives: message.onNew({threadId}) or message.onAnyNew
Subscribe(userId, procedure, thread) ==
    /\ Len(sessions) < MaxSessions
    /\ procedure = "onAnyNew" => thread = 0
    /\ sessions' = Append(sessions, Session(userId, procedure, thread))
    /\ UNCHANGED <<threadParticipant, threadCount, updatedAt, messages, creating,
                   sending, sendCount, listeners, emitted>>
    /\ UNCHANGED clientVars

\* onNew resumes after await verifyThreadParticipant: FORBIDDEN, or the observable
\* is returned and subscribed to, which registers onMessage on the thread's topic.
onNew(n) ==
    /\ n \in 1..Len(sessions)
    /\ sessions[n].procedure = "onNew"
    /\ sessions[n].state = "pending"
    /\ IF verifyThreadParticipant(sessions[n].userId, sessions[n].threadId)
       THEN /\ listeners' = Append(listeners, <<ThreadTopic(sessions[n].threadId), n>>)
            /\ sessions' = [sessions EXCEPT ![n].state = "live", ![n].since = Len(emitted)]
       ELSE /\ listeners' = listeners
            /\ sessions' = [sessions EXCEPT ![n].state = "forbidden"]
    /\ UNCHANGED <<threadParticipant, threadCount, updatedAt, messages, creating,
                   sending, sendCount, emitted>>
    /\ UNCHANGED clientVars

\* onAnyNew resumes after await getUserThreadIds: the observable is returned and
\* subscribed to, which registers onMessage on "message:new".
onAnyNew(n) ==
    /\ n \in 1..Len(sessions)
    /\ sessions[n].procedure = "onAnyNew"
    /\ sessions[n].state = "pending"
    /\ listeners' = Append(listeners, <<AnyTopic, n>>)
    /\ sessions' = [sessions EXCEPT ![n].state = "live", ![n].since = Len(emitted),
                                    ![n].userThreadIds = getUserThreadIds(sessions[n].userId)]
    /\ UNCHANGED <<threadParticipant, threadCount, updatedAt, messages, creating,
                   sending, sendCount, emitted>>
    /\ UNCHANGED clientVars

\* off that drops every handler of the topic, whatever function is named
off_WholeTopic(ls, topic, n) == SelectSeq(ls, LAMBDA l : l[1] # topic)

\* messageEmitter.off(topic, onMessage), onMessage being the closure of session n:
\* the registration of that function on that topic is removed, if there is one.
off(ls, topic, n) == SelectSeq(ls, LAMBDA l : l # <<topic, n>>)

\* The observable's cleanup function: messageEmitter.off(topic, onMessage). It is
\* called when the client stops the subscription and when its transport drops,
\* possibly both.
Unsubscribe(n) ==
    /\ n \in 1..Len(sessions)
    /\ sessions[n].state \in {"live", "closed"}
    /\ sessions[n].closes < MaxCloses
    /\ listeners' = off(listeners, TopicOf(sessions[n]), n)
    /\ sessions' = [sessions EXCEPT ![n].state = "closed", ![n].closes = @ + 1]
    /\ UNCHANGED <<threadParticipant, threadCount, updatedAt, messages, creating,
                   sending, sendCount, emitted>>
    /\ UNCHANGED clientVars

NextServer ==
    \/ \E c \in CreateRequests : CreateFind(c[1], c[2])
    \/ \E c \in creating : CreateInsert(c)
    \/ \E userId \in Senders, thread \in ThreadIds : SendVerify(userId, thread)
    \/ \E s \in sending : SendCreate(s)
    \/ \E s \in sending : SendUpdate(s)
    \/ \E s \in sending : SendEmit(s)
    \/ \E userId \in Subscribers, thread \in ThreadIds : Subscribe(userId, "onNew", thread)
    \/ \E userId \in Subscribers : Subscribe(userId, "onAnyNew", 0)
    \/ \E n \in 1..MaxSessions : onNew(n)
    \/ \E n \in 1..MaxSessions : onAnyNew(n)
    \/ \E n \in 1..Len(sessions) : sessions[n].state = "live" /\ Unsubscribe(n)

\* The emitter with one thread: every way a subscription ends (its cleanup called
\* once or again), every way a dispatch ends (all handlers return, or one throws)
\* and every way a send ends (rejected, failed while storing, or published).
NextBus ==
    \/ threadCount + Cardinality(creating) < MaxBusThreads /\ CreateFind("alice", "bob")
    \/ \E c \in creating : CreateInsert(c)
    \/ \E userId \in Senders : SendVerify(userId, 1)
    \/ \E s \in sending : SendCreate(s)
    \/ \E s \in sending : SendUpdate(s)
    \/ \E s \in sending : SendEmit(s)
    \/ \E s \in sending, n \in 1..MaxSessions : SendEmitThrows(s, n)
    \/ \E s \in sending : SendCreateFails(s)
    \/ \E s \in sending : SendUpdateFails(s)
    \/ \E userId \in Subscribers : Subscribe(userId, "onNew", 1)
    \/ \E userId \in Subscribers : Subscribe(userId, "onAnyNew", 0)
    \/ \E n \in 1..MaxSessions : onNew(n)
    \/ \E n \in 1..MaxSessions : onAnyNew(n)
    \/ \E n \in 1..MaxSessions : Unsubscribe(n)

\* ======================================================== specifications
OptimisticIds == {-k : k \in 1..(MaxSends + 1)}

Next ==
    \/ \E input \in Inputs : handleSend(input)
    \/ \E r \in mutations, subscribed \in BOOLEAN : ServerSend(r, subscribed)
    \/ \E r \in mutations : SendSuccess(r)
    \/ \E r \in mutations : SendError(r)
    \/ onData
    \/ \E optimisticId \in OptimisticIds : retryMessage(optimisticId)
    \/ \E optimisticId \in OptimisticIds : removeFailedMessage(optimisticId)

Init == InitClient /\ InitServer /\ InitConnection /\ InitDelay /\ InitUtil

\* The client view with the sends it issues and the pushes of its own messages.
Spec == Init /\ [][Next]_vars

\* The same, with messages of other origin pushed on the subscription as well.
NextForeign ==
    \/ Next
    \/ \E sender \in {CurrentUser, OtherUser}, content \in {Text("a"), Text("b")} :
            ForeignSend(sender, content)

SpecForeign == Init /\ [][NextForeign]_vars

\* Sends and their outcomes next to messages of the other participant, or of the
\* same user on another client, pushed to the view.
NextPush ==
    \/ \E input \in Inputs : mutationCount < MaxViewSends /\ handleSend(input)
    \/ \E r \in mutations, subscribed \in BOOLEAN : ServerSend(r, subscribed)
    \/ \E r \in mutations : SendSuccess(r)
    \/ \E r \in mutations : SendError(r)
    \/ onData
    \/ \E sender \in {CurrentUser, OtherUser}, content \in {Text("a"), Text("b")} :
            ForeignSend(sender, content)

SpecPush == Init /\ [][NextPush]_vars

\* The compose input next to the sends: the user types, submits what the input
\* holds, and types again while sends are in flight.
NextCompose ==
    \/ \E value \in Inputs : onChange(value)
    \/ mutationCount < MaxViewSends /\ handleSend(newMessage)
    \/ \E r \in mutations, subscribed \in BOOLEAN : ServerSend(r, subscribed)
    \/ \E r \in mutations : SendSuccess(r)
    \/ \E r \in mutations : SendError(r)
    \/ onData

SpecCompose == Init /\ [][NextCompose]_vars

\* The client view with what else happens to it: the connection state it is
\* notified of, and thread.getById answered again.
NextView ==
    \/ \E input \in Inputs : mutationCount < MaxViewSends /\ handleSend(input)
    \/ \E r \in mutations, subscribed \in BOOLEAN : ServerSend(r, subscribed)
    \/ \E r \in mutations : SendSuccess(r)
    \/ \E r \in mutations : SendError(r)
    \/ onData
    \/ \E optimisticId \in OptimisticIds :
            mutationCount < MaxViewSends /\ retryMessage(optimisticId)
    \/ \E optimisticId \in OptimisticIds : removeFailedMessage(optimisticId)
    \/ \E newState \in NotifiedStates : setConnectionState(newState)
    \/ FetchRequest
    \/ \E f \in fetches : FetchSuccess(f)

SpecView == Init /\ [][NextView]_vars

\* The view across threads: sends, their outcomes and pushes while the user
\* moves between threads.  The server pushes a message to this client only when
\* its subscription is for the message's thread.
NextThread ==
    \/ \E input \in Inputs : mutationCount < MaxViewSends /\ handleSend(input)
    \/ \E r \in mutations, subscribed \in BOOLEAN :
            (subscribed => r.threadId = threadId) /\ ServerSend(r, subscribed)
    \/ \E r \in mutations : SendSuccess(r)
    \/ \E r \in mutations : SendError(r)
    \/ onData
    \/ \E t \in ViewThreads : selectThread(t)
    \/ \E f \in fetches : FetchSuccess(f)

SpecThread == Init /\ [][NextThread]_vars

\* Validation: validateMessage called with any content, the submit of the content
\* it was called with, and what becomes of the send.
NextValidate ==
    \/ \E content \in Texts : mutationCount < MaxValidatedSends /\ validate(content)
    \/ \E input \in Texts :
            /\ mutationCount < MaxValidatedSends
            /\ validation # NotCalled /\ validated = input
            /\ handleSend(input)
    \/ \E r \in mutations : ServerSend(r, FALSE)
    \/ \E r \in mutations : SendSuccess(r)
    \/ \E r \in mutations : SendError(r)

SpecValidate == Init /\ [][NextValidate]_vars

\* formatRelativeTime for every time and date.
SpecFormat == Init /\ [][NextFormat]_vars

\* The connection manager with the transport, the credentials and its listeners.
SpecConnection == Init /\ [][NextConnection]_vars

\* The connection manager without listeners: transport events, backoff timers
\* and credential changes
NextReconnect ==
    \/ TransportOpen
    \/ TransportClose
    \/ RetryTimer
    \/ \E t \in Tokens, again \in BOOLEAN : setToken(t, again)
    \/ \E again \in BOOLEAN : clearToken(again)

\* A connection attempt ends: the transport opens or the attempt fails
AttemptEnds ==
    /\ socket = "connecting"
    /\ (TransportOpen \/ TransportClose)

\* The same, scheduled fairly: a backoff timer that was set fires, and a
\* connection attempt that was started ends.
SpecReconnect ==
    /\ Init
    /\ [][NextReconnect]_vars
    /\ WF_vars(RetryTimer)
    /\ WF_vars(AttemptEnds)

\* The reconnect delay, for every attempt and every random draw.
SpecDelay == Init /\ [][NextDelay]_vars

\* The server: thread creation, sends, subscriptions and the event emitter.
SpecServer == Init /\ [][NextServer]_vars

\* The emitter and its handlers.
SpecBus == Init /\ [][NextBus]_vars

\* ================================================================= claims
\* Helpers of the statements below.
CountId(s, id) == Cardinality({i \in 1..Len(s) : s[i].id = id})

\* The placeholders of a list or map, by optimisticId
Placeholder(s, optimisticId) ==
    {i \in 1..Len(s) : isOptimisticMessage(s[i]) /\ s[i].optimisticId = optimisticId}

\* The placeholders whose content is not c, in order
OtherPending(s, c) ==
    SelectSeq(s, LAMBDA m : isOptimisticMessage(m) /\ m.content # c)

\* The entries that are not the placeholder optimisticId, in order
AllBut(s, optimisticId) ==
    SelectSeq(s, LAMBDA m : ~(isOptimisticMessage(m) /\ m.optimisticId = optimisticId))

\* C1: once the confirmation of a send has been handled, whether the push of the
\* same message came before it, after it or never, the displayed list holds
\* exactly one entry with that message id, it is the confirmed message (not a
\* placeholder), and the placeholder that issued the send is not shown as sending.
C1_ConfirmedExactlyOnce ==
    \A c \in settled :
        /\ CountId(localMessages, c.id) = 1
        /\ \A i \in 1..Len(localMessages) :
               localMessages[i].id = c.id => ~isOptimisticMessage(localMessages[i])
        /\ \A i \in Placeholder(localMessages, c.origin) :
               localMessages[i].status # "sending"

\* C1 witness: a send is confirmed, its push has been handled too, nothing is in
\* flight, and the list is exactly the confirmed message.
C1_Witness ==
    /\ settled # {}
    /\ mutations = {} /\ pushes = <<>>
    /\ mutationCount = 1
    /\ Len(localMessages) = 1
    /\ ~isOptimisticMessage(localMessages[1])

\* The placeholders shown as sending for content c
SendingFor(s, c) ==
    {i \in 1..Len(s) : isOptimisticMessage(s[i]) /\ s[i].content = c /\ s[i].status = "sending"}

\* C6 (as claimed): when the push of a send's message is handled before the
\* confirmation, while a placeholder is shown as sending for it, the push takes
\* one sending placeholder of that content away and shows the message; and when
\* the confirmation of a send then finds the message id already in the list, it
\* changes neither the displayed list nor the pending map.
C6_ConfirmationAfterPushChangesNothing ==
    [][\A r \in mutations :
          /\ ( /\ onData
               /\ r.phase = "responded"
               /\ Head(pushes).id = r.id
               /\ SendingFor(localMessages, r.content) # {} )
             => /\ Cardinality(SendingFor(localMessages', r.content))
                      = Cardinality(SendingFor(localMessages, r.content)) - 1
                /\ HasId(localMessages', r.id)
          /\ (SendSuccess(r) /\ HasId(localMessages, r.id))
             => /\ localMessages' = localMessages
                /\ optimisticMessages' = optimisticMessages
      ]_vars

\* C7 (as claimed): a failing send turns the placeholder that issued it into a
\* failed one with an error text, and a placeholder shown as failed stays in the
\* displayed list, unaltered, in every step other than its own retry or discard
\* (the push of a message of the same sender and content, which takes its
\* place, is allowed as well).
C7_FailedStaysUntilRetryOrDiscard ==
    [][/\ \A r \in mutations :
            SendError(r) =>
                \A i \in Placeholder(localMessages', r.origin) :
                    /\ localMessages'[i].status = "failed"
                    /\ localMessages'[i].error # Undefined
       /\ \A k \in 1..Len(localMessages) :
            (isOptimisticMessage(localMessages[k]) /\ localMessages[k].status = "failed")
            => \/ \E j \in 1..Len(localMessages') : localMessages'[j] = localMessages[k]
               \/ retryMessage(localMessages[k].optimisticId)
               \/ removeFailedMessage(localMessages[k].optimisticId)
               \/ /\ onData
                  /\ Head(pushes).sender = localMessages[k].sender
                  /\ Head(pushes).content = localMessages[k].content
      ]_vars

\* C8: retrying a placeholder shown as failed puts that same entry back to
\* sending with its error cleared, in the list and in the pending map, adds no
\* entry to either, changes no other entry, and issues exactly one send, with
\* the entry's content and thread.
C8_RetryResendsSameEntry ==
    [][\A optimisticId \in OptimisticIds :
          (RetryShown(optimisticId) /\ retryMessage(optimisticId)) =>
            \E k \in 1..Len(localMessages), i \in 1..Len(optimisticMessages) :
              /\ Placeholder(localMessages, optimisticId) = {k}
              /\ Placeholder(optimisticMessages, optimisticId) = {i}
              /\ DOMAIN localMessages' = DOMAIN localMessages
              /\ DOMAIN optimisticMessages' = DOMAIN optimisticMessages
              /\ localMessages'[k] =
                    [localMessages[k] EXCEPT !.status = "sending", !.error = Undefined]
              /\ optimisticMessages'[i] = localMessages'[k]
              /\ \A j \in DOMAIN localMessages : j # k => localMessages'[j] = localMessages[j]
              /\ \A j \in DOMAIN optimisticMessages :
                     j # i => optimisticMessages'[j] = optimisticMessages[j]
              /\ mutations \subseteq mutations'
              /\ \E r \in mutations' \ mutations :
                     /\ mutations' \ mutations = {r}
                     /\ r.content = localMessages[k].content
                     /\ r.threadId = localMessages[k].threadId
                     /\ r.phase = "requested"
      ]_vars

\* C8 witness: a retry has been made (more sends than placeholders were issued),
\* the retried entry is shown as sending again and its second send is in flight.
C8_Witness ==
    /\ mutationCount > optimisticCount
    /\ \E r \in mutations :
          /\ r.phase = "requested"
          /\ r.rid = mutationCount
          /\ \E i \in Placeholder(localMessages, r.origin) :
                 /\ localMessages[i].status = "sending"
                 /\ localMessages[i].error = Undefined

\* C9: discarding a placeholder removes it from the displayed list and from the
\* pending map, keeps every other entry of both as it was and in the same
\* order, and starts no network operation.
C9_DiscardRemovesOnlyThatEntry ==
    [][\A optimisticId \in OptimisticIds :
          removeFailedMessage(optimisticId) =>
              /\ Placeholder(localMessages', optimisticId) = {}
              /\ Placeholder(optimisticMessages', optimisticId) = {}
              /\ AllBut(localMessages', optimisticId) = AllBut(localMessages, optimisticId)
              /\ AllBut(optimisticMessages', optimisticId) = AllBut(optimisticMessages, optimisticId)
              /\ Len(localMessages') = Len(localMessages) - 1
              /\ mutations' = mutations
              /\ mutationCount' = mutationCount
              /\ pushes' = pushes
      ]_vars

\* C9 witness: no send was ever confirmed, so the first placeholder can only have
\* left the pending map by a discard, and a second placeholder is still shown.
C9_Witness ==
    /\ settled = {}
    /\ optimisticCount >= 2
    /\ Placeholder(optimisticMessages, -1) = {}
    /\ Placeholder(localMessages, -1) = {}
    /\ Placeholder(localMessages, -2) # {}
    /\ Placeholder(optimisticMessages, -2) # {}

\* C10: an event of a send with content c (its confirmation, its failure, the
\* push of a message with content c, the retry or the discard of a placeholder
\* with content c) leaves every placeholder of another content as it was, in the
\* displayed list and in the pending map: same status, same error, still there.
C10_DistinctContentIndependent ==
    [][\A c \in {Text("a"), Text("b")} :
          ( \/ \E r \in mutations : r.content = c /\ (SendSuccess(r) \/ SendError(r))
            \/ (onData /\ Head(pushes).content = c)
            \/ \E k \in 1..Len(localMessages) :
                  /\ isOptimisticMessage(localMessages[k])
                  /\ localMessages[k].content = c
                  /\ \/ retryMessage(localMessages[k].optimisticId)
                     \/ removeFailedMessage(localMessages[k].optimisticId) )
          => /\ OtherPending(localMessages', c) = OtherPending(localMessages, c)
             /\ OtherPending(optimisticMessages', c) = OtherPending(optimisticMessages, c)
      ]_vars

\* C10 witness: two placeholders of distinct content, one failed and retried
\* (three sends were issued for two placeholders), the other still as submitted.
C10_Witness ==
    /\ optimisticCount = 2
    /\ mutationCount = 3
    /\ \E i, j \in 1..Len(localMessages) :
          /\ isOptimisticMessage(localMessages[i])
          /\ isOptimisticMessage(localMessages[j])
          /\ localMessages[i].content = Text("a")
          /\ localMessages[j].content = Text("b")
          /\ localMessages[j].status = "sending"
          /\ \E r \in mutations : r.origin = localMessages[i].optimisticId /\ r.rid = 3

C12_PlaceholderDestroyedOnlyByReconcileOrDiscard ==
    [][\A k \in 1..Len(localMessages) :
          isOptimisticMessage(localMessages[k]) =>
              \/ Placeholder(localMessages', localMessages[k].optimisticId) # {}
              \/ \E r \in mutations :
                    r.origin = localMessages[k].optimisticId /\ SendSuccess(r)
              \/ /\ onData
                 /\ Head(pushes).sender = localMessages[k].sender
                 /\ Head(pushes).content = localMessages[k].content
              \/ removeFailedMessage(localMessages[k].optimisticId)
      ]_vars

\* ------------------------------------------------------ connection claims
\* The six transitions of the connection state
SpecifiedTransitions ==
    {<<"disconnected", "connecting">>, <<"connecting", "connected">>,
     <<"connected", "disconnected">>, <<"connected", "reconnecting">>,
     <<"reconnecting", "connecting">>, <<"reconnecting", "disconnected">>}

\* A credential change: login or logout
CredentialChange ==
    \/ \E t \in Tokens, again \in BOOLEAN : setToken(t, again)
    \/ \E again \in BOOLEAN : clearToken(again)

\* C13 (as claimed): every change of the connection manager's state is one of
\* the six transitions; in particular the state becomes connected from
\* connecting only.
C13_OnlySpecifiedTransitions ==
    [][state' # state => <<state, state'>> \in SpecifiedTransitions]_vars

\* C14 (as claimed): with a token stored, a close that brings the attempts to
\* maxReconnectAttempts or more sets the state to disconnected; and from then
\* on (token stored, attempts at the maximum through failed connections and
\* not through credential changes, state disconnected) every step that is not
\* a credential change leaves the state disconnected.
C14_GivenUpStaysDisconnected ==
    [][/\ (TransportClose /\ token # Null /\ reconnectAttempts' >= maxReconnectAttempts)
            => state' = "disconnected"
       /\ ( /\ state = "disconnected"
            /\ token # Null
            /\ reconnectAttempts >= maxReconnectAttempts
            /\ reconnectAttempts <= retries + 1
            /\ ~CredentialChange )
            => state' = "disconnected"
      ]_vars

\* C15 (as claimed): when the transport closes with a token stored, and every
\* close counted so far was a failed connection attempt (the attempts counted
\* are the connections attempted since the last open), the state becomes
\* reconnecting if fewer than maxReconnectAttempts reconnections have been
\* attempted and disconnected otherwise: the manager gives up only when
\* maxReconnectAttempts reconnections have been attempted.
C15_MaxAttemptsAllowed ==
    [][(TransportClose /\ token # Null /\ reconnectAttempts = retries)
          => /\ state' = "reconnecting" <=> retries < maxReconnectAttempts
             /\ state' = "disconnected" <=> retries >= maxReconnectAttempts
      ]_vars

C17_CredentialChangeForcesReconnect ==
    [][/\ \A t \in Tokens, again \in BOOLEAN :
            setToken(t, again) => /\ token' = t
                                  /\ socket' \notin {"open", "connecting"}
                                  /\ state' = "reconnecting"
       /\ \A again \in BOOLEAN :
            clearToken(again) => /\ token' = Null
                                 /\ socket' \notin {"open", "connecting"}
                                 /\ state' = "disconnected"
       /\ RetryTimer => socketToken' = token
       /\ socket' \in {"open", "connecting"} => socketToken' = token'
      ]_vars

\* min(1000 * 2^k, 30000), which is 30000 from k = 5 on
ClaimedDelay(k) == IF k >= 5 THEN 30000 ELSE 1000 * 2^k

\* C18: the delay returned for attempt k lies within [0.8 * d, 1.2 * d] for
\* d = min(1000 * 2^k, 30000), whatever Math.random() returned; and d, as the
\* code computes it, does not decrease with k and is 30000 from k = 5 on.
C18_DelayWithinJitterBounds ==
    /\ reconnectDelay # 0 =>
          /\ 8 * ClaimedDelay(attemptIndex) * DelayUnit <= 10 * reconnectDelay
          /\ 10 * reconnectDelay <= 12 * ClaimedDelay(attemptIndex) * DelayUnit
    /\ \A k \in 0..MaxAttemptIndex :
          /\ cappedDelay(k) = ClaimedDelay(k)
          /\ cappedDelay(k) <= cappedDelay(k + 1)
          /\ k >= 5 => cappedDelay(k) = 30000

\* C18 witness: a delay computed past the cap with the lowest random draw, below
\* the 30000 ms it is spread around (27000 ms).
C18_Witness ==
    /\ attemptIndex >= 5
    /\ randomDraw = 0
    /\ reconnectDelay = 27000 * DelayUnit

\* C19: every subscribed listener was last called with the manager's current
\* state; subscribing calls the listener at once, with the current state; a
\* change of the state calls every subscribed listener; and a listener that is
\* not subscribed is not called.
C19_ListenersSeeCurrentState ==
    [][\A l \in Listeners :
          /\ l \in stateListeners' => notified'[l].last = state'
          /\ subscribe(l) => /\ notified'[l].last = state
                             /\ notified'[l].calls # notified[l].calls
          /\ (l \in stateListeners /\ state' # state)
                => notified'[l].calls # notified[l].calls
          /\ (l \notin stateListeners /\ ~subscribe(l)) => notified'[l] = notified[l]
      ]_vars

\* C19 witness: one listener is subscribed and was last called with the current
\* state, reconnecting; another has unsubscribed while the state was connected
\* and still has that as its last call.
C19_Witness ==
    \E l, k \in Listeners :
        /\ l \in stateListeners /\ k \notin stateListeners
        /\ state = "reconnecting"
        /\ notified[l].last = "reconnecting"
        /\ notified[k].last = "connected"

\* ---------------------------------------------------------- server claims
\* The handlers registered on the emitter for session n
Registered(n) == {k \in 1..Len(listeners) : listeners[k][2] = n}

\* The events emitted on a topic after the first `since` emit calls, in order
EmittedSince(topic, since) ==
    LET later == SubSeq(emitted, since + 1, Len(emitted))
        on == SelectSeq(later, LAMBDA e : e.topic = topic)
    IN  [i \in 1..Len(on) |-> on[i].event]

\* C2: an onNew request of a user who is not a participant of the thread is
\* never live: while pending and once FORBIDDEN, no handler is registered for it
\* and it has been sent nothing; and a request that ended FORBIDDEN stays
\* without handler and without events whatever happens later.
C2_ForbiddenNeverRegistered ==
    \A n \in 1..Len(sessions) :
        /\ ( /\ sessions[n].procedure = "onNew"
             /\ ~IsParticipant(sessions[n].userId, sessions[n].threadId) )
           => /\ sessions[n].state \in {"pending", "forbidden"}
              /\ Registered(n) = {}
              /\ sessions[n].received = <<>>
        /\ sessions[n].state = "forbidden"
           => /\ Registered(n) = {}
              /\ sessions[n].received = <<>>

\* C2 witness: a request ended FORBIDDEN, and an event of the thread it asked
\* for has been emitted since.
C2_Witness ==
    \E n \in 1..Len(sessions) :
        /\ sessions[n].state = "forbidden"
        /\ ~IsParticipant(sessions[n].userId, sessions[n].threadId)
        /\ \E k \in 1..Len(emitted) : emitted[k].event.threadId = sessions[n].threadId

\* C3: every event a session has been sent, through onNew or onAnyNew, is of a
\* thread its user is a participant of.
C3_OnlyOwnThreads ==
    \A n \in 1..Len(sessions) :
        \A k \in 1..Len(sessions[n].received) :
            IsParticipant(sessions[n].userId, sessions[n].received[k].threadId)

\* C3 witness: a live onAnyNew session has been sent an event, and an event of a
\* thread its user is not in was emitted while it was registered.
C3_Witness ==
    \E n \in 1..Len(sessions) :
        /\ sessions[n].procedure = "onAnyNew"
        /\ sessions[n].state = "live"
        /\ sessions[n].received # <<>>
        /\ \E k \in (sessions[n].since + 1)..Len(emitted) :
               ~IsParticipant(sessions[n].userId, emitted[k].event.threadId)

C5_MembershipSnapshot ==
    [][\A n \in 1..Len(sessions') :
          sessions'[n].procedure = "onAnyNew" =>
              /\ \A k \in 1..Len(sessions'[n].received) :
                     sessions'[n].received[k].threadId \in sessions'[n].userThreadIds
              /\ (n <= Len(sessions) /\ sessions[n].state # "pending")
                     => sessions'[n].userThreadIds = sessions[n].userThreadIds
      ]_vars

\* C5 witness: a user has two live onAnyNew sessions; a thread joined between
\* the two subscribes is in the set of the second only, and an event of that
\* thread, emitted while both were registered, went to the second and not to the
\* first.
C5_Witness ==
    \E n, m \in 1..Len(sessions) :
        /\ sessions[n].procedure = "onAnyNew" /\ sessions[m].procedure = "onAnyNew"
        /\ sessions[n].state = "live" /\ sessions[m].state = "live"
        /\ sessions[n].userId = sessions[m].userId
        /\ \E k \in 1..Len(emitted) :
              LET e == emitted[k].event
              IN  /\ k > sessions[n].since /\ k > sessions[m].since
                  /\ emitted[k].topic = AnyTopic
                  /\ IsParticipant(sessions[n].userId, e.threadId)
                  /\ e.threadId \notin sessions[n].userThreadIds
                  /\ e.threadId \in sessions[m].userThreadIds
                  /\ \A i \in 1..Len(sessions[n].received) : sessions[n].received[i] # e
                  /\ \E i \in 1..Len(sessions[m].received) : sessions[m].received[i] = e

\* C20: a session has been sent nothing while its membership check is pending,
\* and nothing that was emitted before its handler was registered: no message
\* it has been sent is among the emit calls made up to its registration.
C20_NothingFromBeforeRegistration ==
    \A n \in 1..Len(sessions) :
        /\ sessions[n].state = "pending" => sessions[n].received = <<>>
        /\ \A i \in 1..Len(sessions[n].received) :
               \A k \in 1..Len(emitted) :
                   emitted[k].event.id = sessions[n].received[i].id
                       => k > sessions[n].since

\* C20 witness: two onNew requests for the same thread, the second made after
\* the first; the second registered before a message was emitted and was sent
\* it; the first registered only after that emit (it was pending during it)
\* and has not been sent the message, while it has received a later one.
C20_Witness ==
    \E n, m \in 1..Len(sessions) :
        /\ n < m
        /\ sessions[n].procedure = "onNew" /\ sessions[m].procedure = "onNew"
        /\ sessions[n].threadId = sessions[m].threadId
        /\ sessions[n].state = "live" /\ sessions[m].state = "live"
        /\ Len(sessions[m].received) = 2
        /\ Len(sessions[n].received) = 1
        /\ sessions[n].received[1] = sessions[m].received[2]
        /\ \E k \in 1..sessions[n].since :
               emitted[k].event = sessions[m].received[1]

\* The sessions whose subscription is open
OpenSessions == {n \in 1..Len(sessions) : sessions[n].state = "live"}

\* C21: after every step, an open session has exactly one handler on the
\* emitter, on its own topic, and a session that is not open has none, so there
\* are as many handlers as open sessions; calling the cleanup of a closed session
\* again changes no registration; and a closed session is sent nothing any more.
C21_OneRegistrationPerOpenSession ==
    [][ /\ \A n \in 1..Len(sessions') :
              /\ Cardinality({k \in 1..Len(listeners') : listeners'[k][2] = n})
                     = IF sessions'[n].state = "live" THEN 1 ELSE 0
              /\ sessions'[n].state = "live"
                     => \E k \in 1..Len(listeners') :
                            listeners'[k] = <<TopicOf(sessions'[n]), n>>
        /\ Len(listeners') = Cardinality({n \in 1..Len(sessions') : sessions'[n].state = "live"})
        /\ \A n \in 1..Len(sessions) :
              sessions[n].state = "closed"
                  => /\ sessions'[n].state = "closed"
                     /\ sessions'[n].received = sessions[n].received
                     /\ Unsubscribe(n) => listeners' = listeners
      ]_vars

\* C21 witness: two sessions with the same handler; the first registered no
\* later than the second and had its cleanup called twice; the second is open
\* and was sent an event emitted afterwards, which the first was not sent.
C21_Witness ==
    \E n, m \in 1..Len(sessions) :
        /\ n # m
        /\ TopicOf(sessions[n]) = TopicOf(sessions[m])
        /\ sessions[n].userThreadIds = sessions[m].userThreadIds
        /\ sessions[n].state = "closed" /\ sessions[n].closes = 2
        /\ sessions[m].state = "live"
        /\ sessions[n].since <= sessions[m].since
        /\ Len(sessions[m].received) > Len(sessions[n].received)
        /\ OpenSessions = {m}
        /\ Len(listeners) = 1

\* C22: when the handler of one session throws during the dispatch of a send,
\* every other handler registered for the thread's topic or for "message:new"
\* that forwards the event has still been handed it, and the send is not
\* answered with the handler's exception.
C22_DispatchIsolatesHandlers ==
    [][\A s \in sending : \A n \in 1..Len(sessions) :
          SendEmitThrows(s, n) =>
              /\ \A m \in (1..Len(sessions)) \ {n} :
                    ( /\ \E k \in 1..Len(listeners) :
                             listeners[k] = <<TopicOf(sessions[m]), m>>
                      /\ TopicOf(sessions[m]) \in {ThreadTopic(s.threadId), AnyTopic}
                      /\ onMessage(sessions[m], messages[s.id]) )
                    => sessions'[m].received = Append(sessions[m].received, messages[s.id])
              /\ \A t \in sending' : t.pc # "threw"
      ]_vars

\* C23: a send by a user who is not a participant of the thread is answered
\* FORBIDDEN in the step of its membership check, which stores no message, leaves
\* updatedAt alone and publishes and delivers nothing; a call answered FORBIDDEN
\* stays so, and nothing is stored, touched or published on its behalf later:
\* every stored message and every published event is of a participant of its
\* thread, and a thread's updatedAt was touched once per stored message at most.
C23_ForbiddenSendHasNoEffect ==
    [][ /\ \A userId \in Senders : \A thread \in ThreadIds :
              (SendVerify(userId, thread) /\ ~IsParticipant(userId, thread))
                  => /\ UNCHANGED <<messages, updatedAt, emitted, sessions, listeners>>
                     /\ \E s \in sending' \ sending :
                            /\ s.userId = userId /\ s.threadId = thread
                            /\ s.pc = "forbidden"
        /\ \A s \in sending : s.pc = "forbidden" => s \in sending'
        /\ \A i \in 1..Len(messages') :
              IsParticipant(messages'[i].sender, messages'[i].threadId)
        /\ \A k \in 1..Len(emitted') :
              IsParticipant(emitted'[k].event.sender, emitted'[k].event.threadId)
        /\ \A t \in ThreadIds :
              updatedAt'[t] <= Cardinality({i \in 1..Len(messages') : messages'[i].threadId = t})
      ]_vars

\* C23 witness: a user who is not in the thread sent to it and was answered
\* FORBIDDEN; a participant's message is stored and published for that thread,
\* nothing of the rejected user is, and updatedAt was touched once.
C23_Witness ==
    \E s \in sending :
        /\ s.pc = "forbidden"
        /\ s.sid = 1
        /\ s.threadId \in 1..threadCount
        /\ ~IsParticipant(s.userId, s.threadId)
        /\ Len(messages) = 1
        /\ messages[1].threadId = s.threadId
        /\ messages[1].sender # s.userId
        /\ updatedAt[s.threadId] = 1
        /\ Len(emitted) = 2

\* The number of characters of s between its first and its last character that
\* is not white space, both included; 0 when it has no such character
TrimmedLength(s) ==
    LET inner == {i \in 1..Len(s) : s[i].ch \notin Whitespace}
        first == CHOOSE i \in inner : \A j \in inner : i <= j
        last == CHOOSE i \in inner : \A j \in inner : j <= i
    IN  IF inner = {} THEN 0 ELSE Length(SubSeq(s, first, last))

\* C24: validateMessage returns "Message cannot be empty" exactly when the
\* trimmed content has no character, the exceed-length error exactly when it
\* has more than 5000, and null otherwise; a submit of a content that fails
\* validation installs no placeholder and issues no send, a submit of any other
\* content issues one, and every send issued carries between 1 and 5000
\* characters.
C24_ValidationGatesTheSend ==
    [][ /\ validation' # NotCalled =>
              validation' = IF TrimmedLength(validated') = 0 THEN EmptyError
                            ELSE IF TrimmedLength(validated') > 5000 THEN ExceedError
                            ELSE Null
        /\ handleSend(validated) =>
              IF TrimmedLength(validated) \in 1..5000
              THEN /\ Len(localMessages') = Len(localMessages) + 1
                   /\ Len(optimisticMessages') = Len(optimisticMessages) + 1
                   /\ Cardinality(mutations') = Cardinality(mutations) + 1
              ELSE UNCHANGED <<localMessages, optimisticMessages, optimisticCount,
                               mutations, mutationCount>>
        /\ \A r \in mutations' : Length(r.content) \in 1..5000
      ]_vars

\* C24 witness: a content of 5000 letters between white space has been
\* validated, submitted and sent.
C24_Witness ==
    /\ validation = Null
    /\ Len(validated) = 3
    /\ Length(validated) > 5000
    /\ TrimmedLength(validated) = 5000
    /\ \E r \in mutations : r.content = Trim(validated) /\ r.phase = "responded"
    /\ Len(localMessages) = 1

\* C25: whatever create calls have been made, no two threads have the same two
\* users as their only participants.
C25_OneThreadPerPair ==
    \A u, v \in Users :
        u # v => Cardinality({t \in 1..threadCount : ParticipantsOf(t) = {u, v}}) <= 1

\* C26: with diff = now - date in milliseconds, formatRelativeTime returns
\* "Just now" when diff < 60000; the whole minutes of diff followed by "m ago"
\* when 60000 <= diff < 3600000; the whole hours of diff followed by "h ago"
\* when 3600000 <= diff < 86400000; and the calendar date of `date` otherwise.
C26_RelativeTimeBySize ==
    relativeTime.text # NotCalled =>
        LET diff == now - date
            n == relativeTime.n
        IN  /\ diff < 60000 => relativeTime = Rendered(0, "Just now")
            /\ (60000 <= diff /\ diff < 3600000)
                   => /\ relativeTime.text = "m ago"
                      /\ n * 60000 <= diff /\ diff < (n + 1) * 60000
            /\ (3600000 <= diff /\ diff < 86400000)
                   => /\ relativeTime.text = "h ago"
                      /\ n * 3600000 <= diff /\ diff < (n + 1) * 3600000
            /\ 86400000 <= diff
                   => /\ relativeTime.text = "date"
                      /\ n * 86400000 <= date /\ date < (n + 1) * 86400000

\* C26 witness: a date one millisecond short of two minutes back is "1m ago".
C26_Witness ==
    /\ now - date = 119999
    /\ relativeTime = Rendered(1, "m ago")

\* The ids of the messages of a thread that have been published
EmittedIds(t) ==
    {emitted[k].event.id : k \in {j \in 1..Len(emitted) : emitted[j].event.threadId = t}}

\* C27: every event published, and every event a session has been sent, is the
\* stored message of its id, with its content, thread and sender; a thread's
\* updatedAt has been touched for every message of it that was published; and a
\* send that was rejected or failed while storing publishes nothing, in that step
\* or later.
C27_PublishedOnlyAfterPersisted ==
    /\ \A k \in 1..Len(emitted) :
           /\ emitted[k].event.id \in 1..Len(messages)
           /\ emitted[k].event = messages[emitted[k].event.id]
    /\ \A n \in 1..Len(sessions) : \A i \in 1..Len(sessions[n].received) :
           /\ sessions[n].received[i].id \in 1..Len(messages)
           /\ sessions[n].received[i] = messages[sessions[n].received[i].id]
    /\ \A t \in ThreadIds : updatedAt[t] >= Cardinality(EmittedIds(t))
    /\ \A s \in sending :
           s.pc \in {"forbidden", "failed", "create", "update"}
               => \A k \in 1..Len(emitted) : emitted[k].event.id # s.id
    /\ Len(messages) + Cardinality({s \in sending : s.id = 0}) <= sendCount

\* C27 witness: one send stored its message and then failed to touch the
\* thread, so that the message is stored and not published; another send went
\* through and its event reached an open session.
C27_Witness ==
    \E s \in sending :
        /\ s.pc = "failed"
        /\ s.id \in 1..Len(messages)
        /\ Len(emitted) = 2
        /\ updatedAt[s.threadId] = 1
        /\ \E n \in 1..Len(sessions) :
               /\ sessions[n].state = "live"
               /\ Len(sessions[n].received) = 1
               /\ sessions[n].received[1].id # s.id

\* C28: after every step of the client (submit, confirmation, failure, push,
\* refetch, retry, discard, change of the connection state) no two entries of
\* the displayed list have the same id; a push whose id is displayed leaves the
\* list as it is, and a confirmation whose id is displayed adds no entry.
C28_NoTwoEntriesWithOneId ==
    [][ /\ \A i, j \in 1..Len(localMessages') :
              localMessages'[i].id = localMessages'[j].id => i = j
        /\ (onData /\ HasId(localMessages, Head(pushes).id))
              => localMessages' = localMessages
        /\ \A r \in mutations :
              (SendSuccess(r) /\ HasId(localMessages, r.id))
                  => /\ Len(localMessages') <= Len(localMessages)
                     /\ CountId(localMessages', r.id) = 1
      ]_vars

\* C28 witness: a send was confirmed and its message is displayed, a placeholder
\* of the same content is displayed as well, and the push of that same message
\* is the next to be handled.
C28_Witness ==
    /\ pushes # <<>>
    /\ \E c \in settled : c.id = Head(pushes).id
    /\ CountId(localMessages, Head(pushes).id) = 1
    /\ \E i \in 1..Len(localMessages) :
           /\ isOptimisticMessage(localMessages[i])
           /\ localMessages[i].content = Head(pushes).content

\* The placeholder a send was issued for is displayed as sending
ShownSending(s, r) ==
    \E i \in Placeholder(s, r.origin) : s[i].status = "sending"

\* C29: while two sends of the same content are in flight, each with its
\* placeholder displayed as sending, the confirmation of one takes exactly one
\* placeholder away and leaves the other displayed as sending, and the failure
\* of one leaves the other displayed as sending.
C29_IdenticalContentOneAtATime ==
    [][\A r, other \in mutations :
          ( /\ r.origin # other.origin
            /\ r.content = other.content
            /\ ShownSending(localMessages, r)
            /\ ShownSending(localMessages, other) )
          => /\ SendSuccess(r)
                 => /\ ShownSending(localMessages', other)
                    /\ Cardinality({i \in 1..Len(localMessages') :
                                        isOptimisticMessage(localMessages'[i])})
                         = Cardinality({i \in 1..Len(localMessages) :
                                        isOptimisticMessage(localMessages[i])}) - 1
             /\ SendError(r) => ShownSending(localMessages', other)
      ]_vars

\* C30: whatever connection state the view shows, a content that passes
\* validation can be submitted, and the submit shows a placeholder for it.
C30_SubmitAcceptedInEveryState ==
    \A input \in Inputs :
        (validateMessage(input) = Null /\ mutationCount < MaxViewSends)
            => ENABLED ( /\ handleSend(input)
                         /\ Len(localMessages') = Len(localMessages) + 1 )

\* C31 (as claimed): an open sets the state to connected and the counter to
\* zero; whenever the state is connected the counter is zero, also for a
\* listener reading it while it is told of the change; and no step other than
\* an open takes the counter from a non-zero value to zero.
C31_ConnectedMeansCounterZero ==
    [][/\ TransportOpen => (state' = "connected" /\ reconnectAttempts' = 0)
       /\ state' = "connected" => reconnectAttempts' = 0
       /\ (TransportOpen /\ stateListeners # {})
             => (seen'.state = "connected" /\ seen'.attempts = 0)
       /\ (reconnectAttempts # 0 /\ reconnectAttempts' = 0) => TransportOpen
      ]_vars

C33_JitterFillsTheInterval ==
    LET d == ClaimedDelay(attemptIndex) * DelayUnit
    IN  /\ (reconnectDelay # 0 /\ randomDraw = 0) => 10 * reconnectDelay = 8 * d
        /\ (reconnectDelay # 0 /\ randomDraw = RandSteps - 1)
              => 10 * RandSteps * reconnectDelay >= 12 * RandSteps * d - 4 * d

\* C34 (as claimed): in every state the pending map and the displayed list hold
\* the same placeholders: every entry of the map has a placeholder with its
\* optimisticId in the list, every placeholder of the list has an entry in the
\* map, and the two carry the same status and the same error.
C34_PendingMapMatchesList ==
    /\ \A i \in 1..Len(optimisticMessages) :
          \E k \in Placeholder(localMessages, optimisticMessages[i].optimisticId) :
              /\ localMessages[k].status = optimisticMessages[i].status
              /\ localMessages[k].error = optimisticMessages[i].error
    /\ \A k \in 1..Len(localMessages) :
          isOptimisticMessage(localMessages[k]) =>
              \E i \in Placeholder(optimisticMessages, localMessages[k].optimisticId) :
                  /\ optimisticMessages[i].status = localMessages[k].status
                  /\ optimisticMessages[i].error = localMessages[k].error

\* The entries of a list or map that belong to thread t: placeholders made in
\* t, and messages the server stores in t
OfThread(s, t) ==
    {k \in 1..Len(s) :
        IF isOptimisticMessage(s[k])
        THEN s[k].threadId = t
        ELSE \E m \in 1..Len(messages') : messages'[m].id = s[k].id
                                          /\ messages'[m].threadId = t}

\* C35 (as claimed): after every step the displayed list and the pending map
\* hold entries of the thread being viewed only; and the confirmation or the
\* failure of a send made in a thread that is no longer the one viewed changes
\* neither the list nor the pending map.
C35_ListHoldsViewedThreadOnly ==
    [][/\ OfThread(localMessages', threadId') = 1..Len(localMessages')
       /\ OfThread(optimisticMessages', threadId') = 1..Len(optimisticMessages')
       /\ \A r \in mutations :
             (r.threadId # threadId /\ (SendSuccess(r) \/ SendError(r)))
                => /\ localMessages' = localMessages
                   /\ optimisticMessages' = optimisticMessages
      ]_vars

\* C36 (as claimed): once every send has had its outcome and every push has
\* been handled, the confirmed messages stand in the displayed list in the
\* order in which the server published them, which is the order of their ids.
C36_ConfirmedInPublishOrder ==
    (mutations = {} /\ pushes = <<>>)
        => \A i, j \in 1..Len(localMessages) :
              ( /\ i < j
                /\ ~isOptimisticMessage(localMessages[i])
                /\ ~isOptimisticMessage(localMessages[j]) )
              => localMessages[i].id < localMessages[j].id

\* The placeholders of a list, in order
Placeholders(s) == SelectSeq(s, isOptimisticMessage)

\* The placeholders a pushed message can stand for: same sender, same content
Matching(s, message) ==
    {k \in 1..Len(s) : /\ isOptimisticMessage(s[k])
                       /\ s[k].sender = message.sender
                       /\ s[k].content = message.content}

\* C37: when a pushed message whose id is not in the list is handled, it is put
\* at the end of the list.  If a placeholder of the same sender and content is
\* shown, exactly one such placeholder is taken out and every other placeholder
\* stays as it was; if none is shown (as for every push from another user,
\* whatever its content), the message is appended and nothing else changes.
C37_PushReplacesOnlyItsOwnPlaceholder ==
    [][(onData /\ ~HasId(localMessages, Head(pushes).id))
          => LET message == Head(pushes)
                 matching == Matching(localMessages, message)
             IN  /\ Len(localMessages') >= 1
                 /\ localMessages'[Len(localMessages')] = message
                 /\ matching = {}
                       => localMessages' = Append(localMessages, message)
                 /\ matching # {}
                       => \E k \in matching :
                             localMessages' = Append(RemoveAt(localMessages, k), message)
                 /\ message.sender # CurrentUser
                       => /\ Placeholders(localMessages') = Placeholders(localMessages)
                          /\ optimisticMessages' = optimisticMessages
      ]_vars

\* C37 witness: a message of the other user was pushed and handled while a
\* placeholder of the same content was shown as sending: the placeholder is
\* still shown, and the message stands after it.
C37_Witness ==
    \E k, j \in 1..Len(localMessages) :
        /\ k < j
        /\ isOptimisticMessage(localMessages[k])
        /\ localMessages[k].status = "sending"
        /\ ~isOptimisticMessage(localMessages[j])
        /\ localMessages[j].sender = OtherUser
        /\ localMessages[j].content = localMessages[k].content

\* C38 (as claimed): a confirmation, a failure and a push change the displayed
\* list and the pending map only: the compose input, with what the user has
\* typed since the submit, the thread viewed and the connection state shown
\* are after the step what they were before it.
C38_OutcomesLeaveTheInputAlone ==
    [][((\E r \in mutations : SendSuccess(r) \/ SendError(r)) \/ onData)
          => /\ newMessage' = newMessage
             /\ threadId' = threadId
             /\ connectionState' = connectionState
      ]_vars

====
